---- MODULE Spec2Model ----
(***************************************************************************)
(* tbfdump (src/src/main.rs): a single pass over a Tock Binary Format      *)
(* image.  main() peeks the version, rewinds and calls tbf_v2(), which     *)
(* reads the base header, walks the TLV records inside a Take bounded to   *)
(* header_size - 16 bytes, discards the remnants and the protected         *)
(* padding, reads the layout header, hands the code bytes to the           *)
(* disassembler and the rest of the file to the hex dump.                  *)
(*                                                                         *)
(* The image is the program's input.  Every byte of it is read at most     *)
(* once after the rewind, so what a read delivers (how many bytes the file *)
(* still holds, and the values of the fields the program looks at) is      *)
(* drawn when the read happens.  file_len is Unknown until a read has met  *)
(* the end of the file.                                                    *)
(*                                                                         *)
(* u64 values: the program subtracts in u64 at two places (lines 124 and   *)
(* 171).  A u64 is represented by its two's complement representative: a   *)
(* negative integer r stands for 2^64 + r.  All other quantities are far   *)
(* below 2^31.                                                             *)
(***************************************************************************)
EXTENDS Integers, Sequences, FiniteSets

VARIABLES
    pc,              \* position of the program
    failure,         \* why the run aborted ("none" while it has not)
    overflow_checks, \* the build: TRUE panics on integer overflow, FALSE wraps
    pos,             \* stream position of `file`
    hi_pos,          \* highest stream offset consumed so far
    file_len,        \* length of the file, Unknown until a read meets its end
    buf,             \* main: the two bytes of the version peek
    version,         \* main: the decoded version
    header_size,     \* tbf_v2: header.header_size
    limit,           \* tbf_v2: r.limit, the bytes the Take `r` still allows (u64)
    tlv,             \* tbf_v2: the TLV record header last read
    name_valid,      \* ss: whether the last package name was valid UTF-8
    padding,         \* tbf_v2: padding
    main_sum,        \* history: sum of protected_size of the records of kind 1
    tlv_consumed,    \* history: bytes consumed through the Take `r`
    records,         \* history: number of TLV record headers read
    layout_at,       \* history: stream offset the layout header was read from
    got_sym_start,   \* tbf_v2: layout.got_sym_start
    buffer,          \* tbf_v2: the code bytes, as a range of the stream
    requests,        \* history: the calls of Disassembler::new
    dump,            \* history: the range handed to hex_dump
    out              \* history: the lines printed

vars == <<pc, failure, overflow_checks, pos, hi_pos, file_len, buf, version,
          header_size, limit, tlv, name_valid, padding, main_sum, tlv_consumed,
          records, layout_at, got_sym_start, buffer, requests, dump, out>>

----------------------------------------------------------------------------
(* Bounds of the model *)

MaxRegion == 20      \* header_size ranges up to BaseSize + MaxRegion
MaxShort == 1        \* header_size ranges down to BaseSize - MaxShort
MaxKind == 4         \* tlv.tipe ranges over 1 .. MaxKind
MaxLength == 2       \* tlv.length ranges over 0 .. MaxLength
MaxProtected == 1    \* protected_size ranges over 0 .. MaxProtected
MaxCode == 4         \* got_sym_start ranges up to LayoutSize + MaxCode
MaxTail == 1         \* bytes a read to the end of the file can still find
MaxRecords == 3      \* the file holds at most MaxRecords TLV record headers
MaxByte == 2         \* each byte of the version peek ranges over 0 .. MaxByte

(* Sizes of the program's structures *)

BaseSize == 16       \* size_of::<TbfHeaderV2Base>()
TlvSize == 4         \* size_of::<TbfHeaderTlv>()
MainSize == 12       \* size_of::<TbfHeaderV2Main>()
LayoutSize == 40     \* size_of::<LayoutHeader32>()

(* enum TbfHeaderTypes *)
TbfHeaderMain == 1
TbfHeaderWriteableFlashRegions == 2
TbfHeaderPackageName == 3
Unused == 5
TbfHeaderTypes ==
    {TbfHeaderMain, TbfHeaderWriteableFlashRegions, TbfHeaderPackageName, Unused}

Unknown == -1
None == [start |-> -1, kind |-> 0, length |-> 0]
NoRange == [off |-> -1, len |-> 0]

Min(a, b) == IF a <= b THEN a ELSE b

----------------------------------------------------------------------------
(* u64 arithmetic on representatives *)

\* a - b in u64, wrapping
WrappingSub(a, b) == a - b

\* whether a - b in u64 overflows (a, b small)
SubOverflows(a, b) == a < b

\* min(n, x) for a small n and a u64 x, as Take::read computes it
UMin(n, x) == IF x < 0 \/ x > n THEN n ELSE x

\* n <= x for a small n and a u64 x
ULe(n, x) == x < 0 \/ n <= x

----------------------------------------------------------------------------
(* The stream *)

\* What a request for n bytes at pos can deliver: the bytes the file holds,
\* at most n.  The bytes below hi_pos are known to exist.
Delivered(n) ==
    IF file_len # Unknown
    THEN {Min(n, file_len - pos)}
    ELSE {g \in 0..n : pos + g >= hi_pos}

\* What reading to the end of the file can deliver.
DeliveredToEnd ==
    IF file_len # Unknown
    THEN {file_len - pos}
    ELSE {g \in 0..(hi_pos - pos + MaxTail) : pos + g >= hi_pos}

\* file_len after a request for n bytes delivered g
LenAfter(n, g) ==
    IF file_len # Unknown THEN file_len
    ELSE IF g < n THEN pos + g ELSE Unknown

Max(a, b) == IF a >= b THEN a ELSE b

\* the stream after g bytes were consumed, of n asked for
Consume(n, g) ==
    /\ pos' = pos + g
    /\ hi_pos' = Max(hi_pos, pos + g)
    /\ file_len' = LenAfter(n, g)

\* the stream after everything up to the end of the file was consumed
ConsumeToEnd(g) ==
    /\ pos' = pos + g
    /\ hi_pos' = Max(hi_pos, pos + g)
    /\ file_len' = pos + g

----------------------------------------------------------------------------
(* Output *)

Line(t) == [tag |-> t, rec |-> -1]
TlvLine(t, at) == [tag |-> t, rec |-> at]

BaseLines ==
    <<Line("version"), Line("header_size"), Line("total_size"), Line("flags"),
      Line("checksum"), Line("")>>

\* the length printed before the type
TlvHeaderLinesSwapped(at) == <<TlvLine("length", at), TlvLine("type", at)>>

\* lines 128-129
TlvHeaderLines(at) == <<TlvLine("type", at), TlvLine("length", at)>>

MainLines(at) ==
    <<TlvLine("init_fn_offset", at), TlvLine("protected_size", at),
      TlvLine("minimum_ram_size", at)>>

LayoutLines ==
    <<Line("got_sym_start"), Line("got_start"), Line("got_size"),
      Line("data_sym_start"), Line("data_start"), Line("data_size"),
      Line("bss_start"), Line("bss_size"), Line("reldata_start"),
      Line("stack_size"), Line("")>>

\* n lines of decoded instructions
InstLines(n) == [i \in 1..n |-> Line("inst")]

----------------------------------------------------------------------------
Init ==
    /\ pc = "main_read"
    /\ failure = "none"
    /\ overflow_checks \in BOOLEAN
    /\ pos = 0
    /\ hi_pos = 0
    /\ file_len = Unknown
    /\ buf = <<0, 0>>
    /\ version = 0
    /\ header_size = 0
    /\ limit = 0
    /\ tlv = None
    /\ name_valid = TRUE
    /\ padding = 0
    /\ main_sum = 0
    /\ tlv_consumed = 0
    /\ records = 0
    /\ layout_at = -1
    /\ got_sym_start = 0
    /\ buffer = NoRange
    /\ requests = <<>>
    /\ dump = NoRange
    /\ out = <<>>

\* a panic: the run stops here
Panic(why) ==
    /\ pc' = "failed"
    /\ failure' = why

----------------------------------------------------------------------------
(* main *)

\* the version decoded from the low byte alone
VersionLowByte(b) == b[1]

\* buf[0] as u16 | (buf[1] as u16) << 8
Version(b) == b[1] + 256 * b[2]

\* line 91: file.read_exact(&mut buf[0..2]).expect("ok"); line 93
MainReadVersion ==
    /\ pc = "main_read"
    /\ \E g \in Delivered(2) :
        /\ Consume(2, g)
        /\ IF g < 2
           THEN /\ Panic("Truncated")
                /\ UNCHANGED <<buf, version>>
           ELSE \E b \in (0..MaxByte) \X (0..MaxByte) :
                /\ buf' = b
                /\ version' = Version(b)
                /\ pc' = "main_seek"
                /\ UNCHANGED failure
    /\ UNCHANGED <<overflow_checks, header_size, limit, tlv, name_valid, padding,
                   main_sum, tlv_consumed, records, layout_at, got_sym_start, buffer,
                   requests, dump, out>>

\* line 95: file.seek(SeekFrom::Start(0))?
MainSeek ==
    /\ pc = "main_seek"
    /\ pos' = 0
    /\ pc' = "main_match"
    /\ UNCHANGED <<failure, overflow_checks, hi_pos, file_len, buf, version,
                   header_size, limit, tlv, name_valid, padding, main_sum,
                   tlv_consumed, records, layout_at, got_sym_start, buffer, requests,
                   dump, out>>

\* lines 97-100: match version
MainMatch ==
    /\ pc = "main_match"
    /\ IF version = 2
       THEN /\ pc' = "v2_base"
            /\ UNCHANGED failure
       ELSE Panic("UnsupportedVersion")
    /\ UNCHANGED <<overflow_checks, pos, hi_pos, file_len, buf, version,
                   header_size, limit, tlv, name_valid, padding, main_sum,
                   tlv_consumed, records, layout_at, got_sym_start, buffer, requests,
                   dump, out>>

----------------------------------------------------------------------------
(* tbf_v2 *)

HeaderSizes == (BaseSize - MaxShort)..(BaseSize + MaxRegion)
Kinds == 1..MaxKind
Lengths == 0..MaxLength
ProtectedSizes == 0..MaxProtected
GotSymStarts ==
    {s \in (LayoutSize - 1)..(LayoutSize + MaxCode) :
        s < LayoutSize \/ (s - LayoutSize) % 2 = 0}

\* lines 106-119: the base header is read and printed
ReadBase ==
    /\ pc = "v2_base"
    /\ \E g \in Delivered(BaseSize) :
        /\ Consume(BaseSize, g)
        /\ IF g < BaseSize
           THEN /\ Panic("Truncated")
                /\ UNCHANGED <<header_size, out>>
           ELSE \E h \in HeaderSizes :
                /\ header_size' = h
                /\ out' = out \o BaseLines
                /\ pc' = "v2_take"
                /\ UNCHANGED failure
    /\ UNCHANGED <<overflow_checks, buf, version, limit, tlv, name_valid,
                   padding, main_sum, tlv_consumed, records, layout_at, got_sym_start,
                   buffer, requests, dump>>

\* the Take bounded to header_size, the base header not subtracted
RegionLimitWholeHeader(h) == h

\* line 124: header.header_size as u64 - size_of::<TbfHeaderV2Base>() as u64
RegionLimit(h) == WrappingSub(h, BaseSize)

\* lines 121-124: padding = 0; r = file.take(...)
TakeRegion ==
    /\ pc = "v2_take"
    /\ padding' = 0
    /\ IF overflow_checks /\ SubOverflows(header_size, BaseSize)
       THEN /\ Panic("Overflow")
            /\ UNCHANGED limit
       ELSE /\ limit' = RegionLimit(header_size)
            /\ pc' = "tlv_loop"
            /\ UNCHANGED failure
    /\ UNCHANGED <<overflow_checks, pos, hi_pos, file_len, buf, version,
                   header_size, tlv, name_valid, main_sum, tlv_consumed, records,
                   layout_at, got_sym_start, buffer, requests, dump, out>>

\* a read of g bytes through the Take `r`
TakeConsume(n, g) ==
    /\ Consume(n, g)
    /\ limit' = limit - g
    /\ tlv_consumed' = tlv_consumed + g

\* the loop going on after None
LoopExitContinue == "tlv_loop"

\* line 147: None => break
LoopExit == "remnants"

\* lines 126-129 and 147: read_tbf_tlv(&mut r).  Fewer than 4 bytes: None, and
\* the loop ends.  tipe is transmuted from the bytes: a value that is no
\* TbfHeaderTypes is an invalid enum value, and formatting it at line 128
\* (the derived Debug, a match with no wildcard arm) either traps or prints
\* something; the match at line 130 compares with 1 and 3 and sends every
\* other value to its wildcard arm.  The file holds at most MaxRecords record
\* headers.
ReadTlv ==
    /\ pc = "tlv_loop"
    /\ \E g \in Delivered(UMin(TlvSize, limit)) :
        /\ records = MaxRecords => g < TlvSize
        /\ TakeConsume(UMin(TlvSize, limit), g)
        /\ IF g < TlvSize
           THEN /\ pc' = LoopExit
                /\ UNCHANGED <<failure, tlv, records, out>>
           ELSE \E k \in Kinds, l \in Lengths :
                /\ tlv' = [start |-> pos, kind |-> k, length |-> l]
                /\ records' = records + 1
                /\ \/ /\ out' = out \o TlvHeaderLines(pos)
                      /\ pc' = "tlv_match"
                      /\ UNCHANGED failure
                   \/ /\ k \notin TbfHeaderTypes
                      /\ Panic("InvalidEnum")
                      /\ UNCHANGED out
    /\ UNCHANGED <<overflow_checks, buf, version, header_size, name_valid,
                   padding, main_sum, layout_at, got_sym_start, buffer,
                   requests, dump>>

\* lines 131-138 and 145: read_tbf_main(&mut r).expect("ok")
MatchMain ==
    /\ pc = "tlv_match"
    /\ tlv.kind = TbfHeaderMain
    /\ \E g \in Delivered(UMin(MainSize, limit)) :
        /\ TakeConsume(UMin(MainSize, limit), g)
        /\ IF g < MainSize
           THEN /\ Panic("Truncated")
                /\ UNCHANGED <<padding, main_sum, out>>
           ELSE \E p \in ProtectedSizes :
                /\ padding' = padding + p
                /\ main_sum' = main_sum + p
                /\ out' = out \o MainLines(tlv.start) \o <<Line("")>>
                /\ pc' = "tlv_loop"
                /\ UNCHANGED failure
    /\ UNCHANGED <<overflow_checks, buf, version, header_size, tlv, name_valid,
                   records, layout_at, got_sym_start, buffer, requests, dump>>

\* the error of an invalid text unwrapped
SsFailsOnInvalid(valid) == ~valid

\* line 191: let _ = r.read_to_string(&mut buf): the error of an invalid text
\* is dropped
SsFails(valid) == FALSE

\* lines 139-142, 145 and 188-193: ss(&mut r, tlv.length.into()).  The inner
\* Take allows min(len, r.limit) bytes; read_to_string reads them all and
\* only then checks that they are UTF-8.
MatchPackageName ==
    /\ pc = "tlv_match"
    /\ tlv.kind = TbfHeaderPackageName
    /\ \E g \in Delivered(UMin(tlv.length, limit)), valid \in BOOLEAN :
        /\ g = 0 => valid
        /\ TakeConsume(UMin(tlv.length, limit), g)
        /\ name_valid' = valid
        /\ IF SsFails(valid)
           THEN /\ Panic("InvalidText")
                /\ UNCHANGED out
           ELSE /\ out' = out \o <<TlvLine("package name", tlv.start), Line("")>>
                /\ pc' = "tlv_loop"
                /\ UNCHANGED failure
    /\ UNCHANGED <<overflow_checks, buf, version, header_size, tlv, padding,
                   main_sum, records, layout_at, got_sym_start, buffer,
                   requests, dump>>

\* lines 143 and 145: _ => {} reads nothing
MatchOther ==
    /\ pc = "tlv_match"
    /\ tlv.kind \notin {TbfHeaderMain, TbfHeaderPackageName}
    /\ out' = out \o <<Line("")>>
    /\ pc' = "tlv_loop"
    /\ UNCHANGED <<failure, overflow_checks, pos, hi_pos, file_len, buf,
                   version, header_size, limit, tlv, name_valid, padding,
                   main_sum, tlv_consumed, records, layout_at, got_sym_start,
                   buffer, requests, dump>>

\* line 151: r.read_to_end(&mut Vec::new())
Remnants ==
    /\ pc = "remnants"
    /\ IF limit < 0
       THEN \E g \in DeliveredToEnd :
            /\ ConsumeToEnd(g)
            /\ limit' = limit - g
            /\ tlv_consumed' = tlv_consumed + g
       ELSE \E g \in Delivered(limit) : TakeConsume(limit, g)
    /\ pc' = "padding"
    /\ UNCHANGED <<failure, overflow_checks, buf, version, header_size, tlv,
                   name_valid, padding, main_sum, records, layout_at,
                   got_sym_start, buffer, requests, dump, out>>

\* line 152: file.take(padding).read_to_end(&mut Vec::new())
SkipPadding ==
    /\ pc = "padding"
    /\ \E g \in Delivered(padding) : Consume(padding, g)
    /\ pc' = "layout"
    /\ UNCHANGED <<failure, overflow_checks, buf, version, header_size, limit,
                   tlv, name_valid, padding, main_sum, tlv_consumed, records, layout_at,
                   got_sym_start, buffer, requests, dump, out>>

\* lines 154-166: read_layout_header32(&mut file).expect("ok"), printed
ReadLayout ==
    /\ pc = "layout"
    /\ \E g \in Delivered(LayoutSize) :
        /\ Consume(LayoutSize, g)
        /\ IF g < LayoutSize
           THEN /\ Panic("Truncated")
                /\ UNCHANGED <<layout_at, got_sym_start, out>>
           ELSE \E s \in GotSymStarts :
                /\ layout_at' = pos
                /\ got_sym_start' = s
                /\ out' = out \o LayoutLines
                /\ pc' = "code"
                /\ UNCHANGED failure
    /\ UNCHANGED <<overflow_checks, buf, version, header_size, limit, tlv,
                   name_valid, padding, main_sum, tlv_consumed, records, buffer,
                   requests, dump>>

\* line 171: layout.got_sym_start as u64 - layout_size
CodeLimit(s) == WrappingSub(s, LayoutSize)

\* lines 168-173: file.take(...).read_to_end(&mut buffer).expect("read failed")
ReadCode ==
    /\ pc = "code"
    /\ IF overflow_checks /\ SubOverflows(got_sym_start, LayoutSize)
       THEN /\ Panic("Overflow")
            /\ UNCHANGED <<pos, hi_pos, file_len, buffer>>
       ELSE /\ IF CodeLimit(got_sym_start) < 0
               THEN \E g \in DeliveredToEnd :
                    /\ ConsumeToEnd(g)
                    /\ buffer' = [off |-> pos, len |-> g]
               ELSE \E g \in Delivered(CodeLimit(got_sym_start)) :
                    /\ Consume(CodeLimit(got_sym_start), g)
                    /\ buffer' = [off |-> pos, len |-> g]
            /\ pc' = "disasm"
            /\ UNCHANGED failure
    /\ UNCHANGED <<overflow_checks, buf, version, header_size, limit, tlv,
                   name_valid, padding, main_sum, tlv_consumed, records, layout_at,
                   got_sym_start, requests, dump, out>>

\* the base address without the header
PcBaseNoHeader(h) == LayoutSize

\* line 178: layout_size + header.header_size as u64
PcBase(h) == LayoutSize + h

\* lines 175-181: one Disassembler over the buffer; it yields one line for
\* each instruction it decodes, of 2 bytes or more each
Disassemble ==
    /\ pc = "disasm"
    /\ requests' = Append(requests, [off |-> buffer.off, len |-> buffer.len,
                                     base |-> PcBase(header_size)])
    /\ \E n \in 0..(buffer.len \div 2) : out' = out \o InstLines(n)
    /\ pc' = "dump"
    /\ UNCHANGED <<failure, overflow_checks, pos, hi_pos, file_len, buf,
                   version, header_size, limit, tlv, name_valid, padding,
                   main_sum, tlv_consumed, records, layout_at, got_sym_start, buffer,
                   dump>>

\* lines 183-185: file.read_to_end(&mut buffer); buffer.hex_dump() printed
HexDump ==
    /\ pc = "dump"
    /\ \E g \in DeliveredToEnd :
        /\ ConsumeToEnd(g)
        /\ dump' = [off |-> pos, len |-> g]
    /\ out' = out \o <<Line("hex_dump")>>
    /\ pc' = "done"
    /\ UNCHANGED <<failure, overflow_checks, buf, version, header_size, limit,
                   tlv, name_valid, padding, main_sum, tlv_consumed, records, layout_at,
                   got_sym_start, buffer, requests>>

----------------------------------------------------------------------------
Next ==
    \/ MainReadVersion
    \/ MainSeek
    \/ MainMatch
    \/ ReadBase
    \/ TakeRegion
    \/ ReadTlv
    \/ MatchMain
    \/ MatchPackageName
    \/ MatchOther
    \/ Remnants
    \/ SkipPadding
    \/ ReadLayout
    \/ ReadCode
    \/ Disassemble
    \/ HexDump

Spec == Init /\ [][Next]_vars

\* The program is one thread that runs until it returns or panics.
FairSpec == Spec /\ WF_vars(Next)

----------------------------------------------------------------------------
(* The claims *)

\* the payload a record declares: 12 bytes for Main, tlv.length otherwise
PayloadSize(t) == IF t.kind = 1 THEN 12 ELSE t.length

\* C1: the match of a record of a kind other than Main (1) and
\* PackageName (3) does not abort the walk and consumes exactly the
\* tlv.length payload bytes, so that the next record header is read
\* 4 + length bytes after the start of this record's header.  (Stated for a
\* header_size of 16 or more and a payload that lies in the bounded region;
\* fewer bytes are consumed only when the file ends inside the payload.)
OtherKindsSkipped ==
    [][(/\ pc = "tlv_match"
        /\ tlv.kind \notin {1, 3}
        /\ header_size >= 16
        /\ tlv.length <= limit) =>
        /\ pc' = "tlv_loop"
        /\ \/ pos' = tlv.start + 4 + tlv.length
           \/ file_len' = pos' /\ pos' < tlv.start + 4 + tlv.length]_vars

\* C2: a record whose payload (12 bytes for Main, tlv.length otherwise) is
\* larger than what is left of the bounded region ends the run in a
\* truncation failure; the payload is never clamped with the parse going on.
\* (Stated for a header_size of 16 or more.)
OversizedPayloadFails ==
    [][(pc = "tlv_match" /\ header_size >= 16 /\ PayloadSize(tlv) > limit) =>
        (pc' = "failed" /\ failure' = "Truncated")]_vars

\* C4: once a layout header with got_sym_start < 40 was read, no code byte is
\* read, no disassembler request is made and nothing is dumped.
ShortGotSymStartFails ==
    layout_at # -1 /\ got_sym_start < 40 =>
        /\ pc \in {"code", "failed"}
        /\ hi_pos = layout_at + 40
        /\ buffer = NoRange
        /\ requests = <<>>
        /\ dump = NoRange

\* C6: whatever header_size is, values below 16 included, the bytes the walk
\* consumed through the bounded region (record headers, payloads, remnants)
\* are at most header_size - 16: none lies at offset header_size or beyond.
WalkStaysInRegion ==
    tlv_consumed > 0 => tlv_consumed <= header_size - 16

\* C3: an image whose first two bytes decode, little-endian, to a version
\* other than 2 never gets into tbf_v2: the run stays in main or has aborted,
\* no byte beyond the first 2 was consumed and nothing was printed; with
\* version 2, tbf_v2 starts reading at offset 0.
UnsupportedVersionAborts ==
    /\ buf[1] + 256 * buf[2] # 2 =>
        /\ pc \in {"main_read", "main_seek", "main_match", "failed"}
        /\ hi_pos <= 2
        /\ out = <<>>
    /\ pc = "failed" /\ failure = "UnsupportedVersion" => buf[1] + 256 * buf[2] # 2
    /\ pc = "v2_base" => pos = 0 /\ buf[1] + 256 * buf[2] = 2

\* version 258 (bytes 2, 1) was refused
UnsupportedVersionSeen ==
    /\ pc = "failed"
    /\ failure = "UnsupportedVersion"
    /\ buf = <<2, 1>>
    /\ pos = 0

BaseTags == <<"version", "header_size", "total_size", "flags", "checksum">>
TlvTags ==
    {"type", "length", "init_fn_offset", "protected_size", "minimum_ram_size",
     "package name"}
LayoutTags ==
    {"got_sym_start", "got_start", "got_size", "data_sym_start", "data_start",
     "data_size", "bss_start", "bss_size", "reldata_start", "stack_size"}
Rank(l) ==
    IF l.tag \in {"version", "header_size", "total_size", "flags", "checksum"}
    THEN 1
    ELSE IF l.tag \in TlvTags THEN 2
    ELSE IF l.tag \in LayoutTags THEN 3
    ELSE 4
\* the line that comes right before a line, in its record or in the layout
Before(tag) ==
    CASE tag = "length" -> "type"
      [] tag = "init_fn_offset" -> "length"
      [] tag = "protected_size" -> "init_fn_offset"
      [] tag = "minimum_ram_size" -> "protected_size"
      [] tag = "package name" -> "length"
      [] tag = "got_start" -> "got_sym_start"
      [] tag = "got_size" -> "got_start"
      [] tag = "data_sym_start" -> "got_size"
      [] tag = "data_start" -> "data_sym_start"
      [] tag = "data_size" -> "data_start"
      [] tag = "bss_start" -> "data_size"
      [] tag = "bss_size" -> "bss_start"
      [] tag = "reldata_start" -> "bss_size"
      [] tag = "stack_size" -> "reldata_start"
IsPrinted(l) == l.tag # ""
Printed == SelectSeq(out, IsPrinted)

\* C7: the report holds the five BaseHeader fields first; then, record after
\* record in stream order, the type and length lines of a TLV record followed
\* at once by its payload fields; then the ten LayoutHeader fields, in their
\* order and in one block; and only after the last of them the decoded
\* instructions and the hex dump.
ReportOrder ==
    LET L == Printed
        n == Len(Printed)
    IN  \A i \in 1..n :
            /\ i <= 5 => L[i].tag = BaseTags[i]
            /\ i > 5 => Rank(L[i]) > 1 /\ Rank(L[i - 1]) <= Rank(L[i])
            /\ Rank(L[i]) = 2 =>
                IF L[i].tag = "type"
                THEN /\ L[i - 1].rec < L[i].rec
                     /\ i < n => L[i + 1] = [tag |-> "length", rec |-> L[i].rec]
                ELSE L[i - 1] = [tag |-> Before(L[i].tag), rec |-> L[i].rec]
            /\ Rank(L[i]) = 3 =>
                IF L[i].tag = "got_sym_start"
                THEN Rank(L[i - 1]) < 3
                ELSE L[i - 1].tag = Before(L[i].tag)
            /\ Rank(L[i]) = 4 =>
                Rank(L[i - 1]) = 4 \/ L[i - 1].tag = "stack_size"

\* a finished report with a Main record, a package name and an instruction
FullReport ==
    /\ pc = "done"
    /\ records >= 2
    /\ \E i \in 1..Len(out) : out[i].tag = "minimum_ram_size"
    /\ \E i \in 1..Len(out) : out[i].tag = "package name"
    /\ \E i \in 1..Len(out) : out[i].tag = "inst"

\* C8: with got_sym_start >= 40 and the code bytes in the file, a finished run
\* made one disassembler request, for the got_sym_start - 40 bytes after the
\* layout header at base 40 + header_size, and the hex dump got the rest.
OneDecoderRequest ==
    /\ Len(requests) <= 1
    /\ pc \in {"dump", "done"} => Len(requests) = 1
    /\ pc \notin {"dump", "done"} => requests = <<>>
    /\ pc = "done" /\ got_sym_start >= 40 /\ file_len >= layout_at + got_sym_start =>
        /\ requests = <<[off |-> layout_at + 40, len |-> got_sym_start - 40,
                         base |-> 40 + header_size]>>
        /\ dump = [off |-> layout_at + got_sym_start,
                   len |-> file_len - (layout_at + got_sym_start)]
        /\ pos = file_len

\* header_size 16, no TLV, got_sym_start 44, 4 bytes of code and nothing after
EndToEndScenario ==
    /\ pc = "done"
    /\ header_size = 16
    /\ records = 0
    /\ got_sym_start = 44
    /\ requests = <<[off |-> 56, len |-> 4, base |-> 56]>>
    /\ dump = [off |-> 60, len |-> 0]
    /\ file_len = 60

\* C9: with header_size >= 16 the TLV loop ends.  Each record header read
\* takes 4 bytes off the bounded region and nothing gives them back; with
\* fewer than 4 bytes left in the region (with none, too) the loop stops
\* without a failure and without a record, and the run goes on to the padding
\* and the layout header.
WalkTerminates ==
    /\ [][header_size >= 16 =>
            /\ pc = "tlv_loop" /\ pc' = "tlv_match" =>
                limit' = limit - 4 /\ records' = records + 1
            /\ pc = "tlv_loop" /\ limit < 4 =>
                pc' = "remnants" /\ failure' = "none" /\ records' = records
            /\ pc = "tlv_match" => limit' <= limit /\ pc' \in {"tlv_loop", "failed"}
            /\ pc = "remnants" => pc' = "padding"
            /\ pc = "padding" => pc' = "layout"]_vars
    /\ (pc = "tlv_loop" /\ header_size >= 16) ~> (pc \in {"layout", "failed"})

\* the loop ended normally with 1 to 3 bytes of the region left over
WalkEndedOnRemnant ==
    /\ pc = "layout"
    /\ failure = "none"
    /\ records >= 1
    /\ (header_size - 16) % 4 # 0
    /\ pos = header_size + padding

\* C10: a PackageName record whose tlv.length bytes are in the bounded region
\* has exactly these bytes consumed, valid text or not, never aborts the run,
\* and the walk goes on with the record header right after them.  (Fewer are
\* consumed only when the file ends inside the payload: the read met its end.)
PackageNameConsumed ==
    [][(pc = "tlv_match" /\ tlv.kind = 3 /\ ULe(tlv.length, limit)) =>
        /\ pc' = "tlv_loop"
        /\ failure' = "none"
        /\ \/ pos' = tlv.start + 4 + tlv.length
           \/ file_len' = pos' /\ pos' < tlv.start + 4 + tlv.length]_vars

\* an invalid package name of 2 bytes was consumed and the walk went on
InvalidNameConsumed ==
    /\ pc = "tlv_loop"
    /\ tlv.kind = 3
    /\ tlv.length = 2
    /\ ~name_valid
    /\ pos = tlv.start + 6

====
